---- MODULE Spec2Model ----
(***************************************************************************)
(* CTA Transit Tracker front end: the monitored-stop store kept by App,    *)
(* the stop selection of StopsList and StopsMap, and the polling           *)
(* ArrivalsList component mounted once per monitored stop.                 *)
(***************************************************************************)
EXTENDS Integers, Sequences, FiniteSets, TLC

VARIABLES
    tabValue,        \* App: useState(0), the visible tab (0 arrivals, 1 find stops)
    stops,           \* App: useState<StopsResponse>, the last search result
    loading,         \* App: useState(false), a stop search is outstanding
    searchRadius,    \* App: useState(0.5), radius of the last accepted search
    stopsReq,        \* GET /stops requests in flight
    geo,             \* pending getCurrentPosition calls (the radius each closed over)
    latitude,        \* LocationSettings: useState('41.8781'), the field's text
    longitude,       \* LocationSettings: useState('-87.6298')
    radius,          \* LocationSettings: useState('0.5')
    formError,       \* LocationSettings: useState<string|null>(null)
    error,           \* App: useState<string|null>, the search error banner
    monitoredStops,  \* App: useState<Stop[]>, the monitored sequence
    loadState,       \* the GET /monitored-stops issued on mount
    loadResp,        \* the body the server answered that GET with
    crashed,         \* a render of App threw: React unmounted the whole tree
    durable,         \* the server's stored snapshot of the monitored stops
    posts,           \* POST /monitored-stops requests in flight
    writes,          \* number of POSTs issued so far
    inst,            \* the ArrivalsList instance mounted under each key
    timers,          \* the live setInterval handles, one per effect run
    fetches,         \* the arrivals fetches in flight
    events,          \* number of user actions and timer expiries so far
    lastOp           \* history: the last call of the store and its outcome

vars == <<tabValue, stops, loading, error, searchRadius, stopsReq, geo,
          latitude, longitude, radius, formError, monitoredStops, loadState,
          loadResp, crashed, durable, posts, writes, inst, timers, fetches,
          events, lastOp>>

appVars == <<stops, loading, error, searchRadius, stopsReq, geo>>
formVars == <<latitude, longitude, radius, formError>>
storeVars == <<monitoredStops, durable, posts, writes, lastOp>>
loadVars == <<loadState, loadResp, crashed>>
aggVars == <<inst, timers, fetches>>

\* ---------------------------------------------------------------- bounds
MaxEvents == 4

\* ------------------------------------------------------------ data model
null == "null"

Keys == {1, 2}

\* A Stop as the search returns it: no related_stop_ids attached.
MkStop(id, name, routes) ==
    [stop_id |-> id, stop_name |-> name, routes |-> routes,
     has_related |-> FALSE, related_stop_ids |-> <<>>]

StateLakeN == MkStop(1, "State/Lake", {"22"})
StateLakeS == MkStop(2, "State/Lake", {"22"})

\* The answers the stops endpoint can give.
SearchResponses ==
    { [train_stops |-> <<>>, bus_stops |-> <<StateLakeN, StateLakeS>>],
      [train_stops |-> <<>>, bus_stops |-> <<StateLakeN>>] }

NoStops == [train_stops |-> <<>>, bus_stops |-> <<>>]

\* An Arrival, reduced to the fields the grouping reads.
MkArrival(dest, min) == [destination |-> dest, minutes |-> min]

\* The answers the arrivals endpoint can give.
ArrivalResponses ==
    { <<MkArrival("Howard", 12), MkArrival("Howard", 4)>>,
      <<MkArrival("Howard", 4), MkArrival("Loop", 7), MkArrival("Howard", 12)>> }

WithRelated(stop, ids) ==
    [stop EXCEPT !.has_related = TRUE, !.related_stop_ids = ids]

\* The snapshots an earlier session can have left in durable storage.
InitialSnapshots ==
    { <<>>, <<WithRelated(StateLakeN, <<2>>)>> }

FetchError == "Error fetching arrivals"
SearchError == "Error fetching stops"
GeoUnsupported == "Geolocation is not supported by your browser"
GeoError == "Error getting location"

\* What a user can leave in the three number fields.  A number input hands
\* the empty string to onChange when its text is not a number.
LatTexts == {"41.8781", "91", "-91", ""}
LonTexts == {"-87.6298", "181", ""}
RadTexts == {"0.5", "2", "3", "0", ""}

\* Numbers are held in ten-thousandths.
units(n) == n * 10000

NaN == [nan |-> TRUE, v |-> 0]
num(n) == [nan |-> FALSE, v |-> n]

\* parseFloat on the texts above
parseFloat(text) ==
    CASE text = "41.8781"  -> num(418781)
      [] text = "-87.6298" -> num(0 - 876298)
      [] text = "91"       -> num(units(91))
      [] text = "-91"      -> num(0 - units(91))
      [] text = "181"      -> num(units(181))
      [] text = "0.5"      -> num(5000)
      [] text = "2"        -> num(units(2))
      [] text = "3"        -> num(units(3))
      [] text = "0"        -> num(0)
      [] OTHER             -> NaN

\* The position the browser reports
GeoPosition == [lat |-> 418819, lon |-> 0 - 876278]

NumbersMessage == "Please enter valid numbers"
LatitudeMessage == "Latitude must be between -90 and 90"
LongitudeMessage == "Longitude must be between -180 and 180"
RadiusMessage == "Radius must be between 0 and 2 miles"

\* ------------------------------------------------------- pure functions
includes(seq, x) == \E j \in 1..Len(seq) : seq[j] = x

\* validate without the upper limit of the radius
validate_noUpperRadius(lat, lon, rad) ==
    IF lat.nan \/ lon.nan \/ rad.nan THEN NumbersMessage
    ELSE IF lat.v < 0 - units(90) \/ lat.v > units(90) THEN LatitudeMessage
    ELSE IF lon.v < 0 - units(180) \/ lon.v > units(180) THEN LongitudeMessage
    ELSE IF rad.v <= 0 THEN RadiusMessage
    ELSE null

\* LocationSettings.handleSubmit: the checks, giving the message set or null
validate(lat, lon, rad) ==
    IF lat.nan \/ lon.nan \/ rad.nan THEN NumbersMessage
    ELSE IF lat.v < 0 - units(90) \/ lat.v > units(90) THEN LatitudeMessage
    ELSE IF lon.v < 0 - units(180) \/ lon.v > units(180) THEN LongitudeMessage
    ELSE IF rad.v <= 0 \/ rad.v > units(2) THEN RadiusMessage
    ELSE null

\* findRelatedStops matching on the name alone
findRelatedStops_byName(stop, allStops) ==
    IF stop.routes = {} THEN <<stop>>
    ELSE LET match(s) == s.stop_name = stop.stop_name
         IN SelectSeq(allStops, match)

\* findRelatedStops asking for every route of the other stop, not some route
findRelatedStops_everyRoute(stop, allStops) ==
    IF stop.routes = {} THEN <<stop>>
    ELSE LET match(s) == /\ s.stop_name = stop.stop_name
                         /\ \A r \in s.routes : r \in stop.routes
         IN SelectSeq(allStops, match)

\* StopsMap.findRelatedStops
findRelatedStops(stop, allStops) ==
    IF stop.routes = {} THEN <<stop>>
    ELSE LET match(s) == /\ s.stop_name = stop.stop_name
                         /\ \E r \in s.routes : r \in stop.routes
         IN SelectSeq(allStops, match)

\* StopsMap.handleStopSelect: the stop handed to onStopSelect
selectedStop(stop, trainStops, busStops) ==
    LET allStops == trainStops \o busStops
        relatedStops == findRelatedStops(stop, allStops)
        other(s) == s.stop_id # stop.stop_id
        kept == SelectSeq(relatedStops, other)
    IN WithRelated(stop, [i \in 1..Len(kept) |-> kept[i].stop_id])

\* StopsList.isStopMonitored: the test that disables the '+' button
isListed(monitored, stop) ==
    \E i \in 1..Len(monitored) : monitored[i].stop_id = stop.stop_id

\* isStopMonitored without the test of the monitored entities' own related ids
isStopMonitored_oneWay(prev, stop) ==
    \E i \in 1..Len(prev) :
        \/ prev[i].stop_id = stop.stop_id
        \/ includes(stop.related_stop_ids, prev[i].stop_id)

\* isStopMonitored without the test of the stop's own id
isStopMonitored_relatedOnly(prev, stop) ==
    \E i \in 1..Len(prev) :
        \/ includes(stop.related_stop_ids, prev[i].stop_id)
        \/ includes(prev[i].related_stop_ids, stop.stop_id)

\* App.handleStopSelect: the isStopMonitored test of the updater
isStopMonitored(prev, stop) ==
    \E i \in 1..Len(prev) :
        \/ prev[i].stop_id = stop.stop_id
        \/ includes(stop.related_stop_ids, prev[i].stop_id)
        \/ includes(prev[i].related_stop_ids, stop.stop_id)

\* addStop without the isStopMonitored test
addStop_always(prev, stop) == Append(prev, stop)

\* App.handleStopSelect: the value the updater returns
addStop(prev, stop) ==
    IF ~isStopMonitored(prev, stop) THEN Append(prev, stop) ELSE prev

\* removeStop cascading to the entities that list the id as related
removeStop_cascade(prev, stopId) ==
    LET keep(s) == s.stop_id # stopId /\ ~includes(s.related_stop_ids, stopId)
    IN SelectSeq(prev, keep)

\* App.handleStopRemove: the value the updater returns
removeStop(prev, stopId) ==
    LET keep(s) == s.stop_id # stopId
    IN SelectSeq(prev, keep)

\* ArrivalsList: arrivals.reduce(...) grouping by destination.  The result
\* is the sequence of Object.entries: one entry per destination in order of
\* first occurrence, each holding its arrivals in the order they were pushed.
reduceStep(acc, arrival) ==
    IF \E i \in 1..Len(acc) : acc[i].destination = arrival.destination
    THEN [i \in 1..Len(acc) |->
            IF acc[i].destination = arrival.destination
            THEN [acc[i] EXCEPT !.arrivals = Append(@, arrival)]
            ELSE acc[i]]
    ELSE Append(acc, [destination |-> arrival.destination,
                      arrivals |-> <<arrival>>])

RECURSIVE reduce(_, _)
reduce(arrivals, acc) ==
    IF arrivals = <<>> THEN acc
    ELSE reduce(Tail(arrivals), reduceStep(acc, Head(arrivals)))

arrivalsByDestination(arrivals) == reduce(arrivals, <<>>)

\* ArrivalsList: what the component returns from render
render(a) ==
    IF a.loading /\ Len(a.arrivals) = 0
    THEN [kind |-> "progress", error |-> null, groups |-> <<>>]
    ELSE IF a.error # null
    THEN [kind |-> "alert", error |-> a.error, groups |-> <<>>]
    ELSE [kind |-> "list", error |-> null,
          groups |-> arrivalsByDestination(a.arrivals)]

\* JSON.stringify of an array of stop ids
RECURSIVE joinIds(_)
joinIds(ids) ==
    IF Len(ids) = 1 THEN ToString(Head(ids))
    ELSE ToString(Head(ids)) \o "," \o joinIds(Tail(ids))

stringify(ids) == IF ids = <<>> THEN "[]" ELSE "[" \o joinIds(ids) \o "]"

\* fetchArrivals: the URL it requests, as the sequence of its tokens.  The
\* template is `.../api/arrivals/${stop.stop_id}${relatedStopsParam}` with
\* relatedStopsParam = `&related_stop_ids=${JSON.stringify(...)}` or ''.
arrivalsUrl(stopId, related) ==
    <<"/api/arrivals/", ToString(stopId)>>
    \o (IF Len(related) > 0
        THEN <<"&", "related_stop_ids", "=", stringify(related)>>
        ELSE <<>>)

\* ------------------------------------------------- ArrivalsList instances
\* No component under the key: React keeps no state for it.
Unmounted ==
    [mounted |-> FALSE, has_related |-> FALSE, related |-> <<>>,
     arrivals |-> <<>>, loading |-> FALSE, error |-> null, run |-> 0,
     polls |-> 0]

\* useState initial values of a new instance.  has_related and related are
\* the effect's dependencies as of its last run, run counts the effect's
\* runs and polls the calls of fetchArrivals.
Mounted(stop) ==
    [mounted |-> TRUE, has_related |-> stop.has_related,
     related |-> stop.related_stop_ids,
     arrivals |-> <<>>, loading |-> FALSE, error |-> null, run |-> 0,
     polls |-> 0]

\* fetchArrivals up to its await: setLoading(true); setError(null)
beginFetch(a) == [a EXCEPT !.loading = TRUE, !.error = null, !.polls = @ + 1]

\* fetchArrivals after a good response: setArrivals(data); setLoading(false)
applySuccess(a, data) == [a EXCEPT !.arrivals = data, !.loading = FALSE]

\* applyFailure clearing the held arrivals
applyFailure_dropsData(a) ==
    [a EXCEPT !.arrivals = <<>>, !.error = FetchError, !.loading = FALSE]

\* fetchArrivals catch and finally: setError(...); setLoading(false)
applyFailure(a) == [a EXCEPT !.error = FetchError, !.loading = FALSE]

\* The effect body: fetchArrivals(); setInterval(fetchArrivals, 30000)
runEffect(a, stop) ==
    beginFetch([a EXCEPT !.has_related = stop.has_related,
                         !.related = stop.related_stop_ids,
                         !.run = @ + 1])

\* a cleanup that leaves the interval running
cleanup_keepsTimer(ts, k) == ts

\* useEffect cleanup: clearInterval(interval)
cleanup(ts, k) == ts \ {[key |-> k, live |-> TRUE]}

\* The entry of the monitored sequence rendered under key k
entryOf(mon, k) == mon[CHOOSE i \in 1..Len(mon) : mon[i].stop_id = k]

\* App render: one ArrivalsList per monitored stop inside TabPanel 0
isRendered(tab, mon, k) ==
    tab = 0 /\ \E i \in 1..Len(mon) : mon[i].stop_id = k

\* The effect's dependency list [stop.stop_id, JSON.stringify(related)]
\* changed since its last run (the key fixes stop_id).
depsChanged(a, stop) ==
    \/ a.has_related # stop.has_related
    \/ a.related # stop.related_stop_ids

\* effectRuns as if the instances were not keyed by stop_id: any change of
\* the monitored sequence runs the effect again
effectRuns_onAnyChange(tab, mon, k) ==
    /\ isRendered(tab, mon, k)
    /\ \/ ~inst[k].mounted
       \/ depsChanged(inst[k], entryOf(mon, k))
       \/ mon # monitoredStops

\* React: the effect runs on mount and when a dependency changed
effectRuns(tab, mon, k) ==
    /\ isRendered(tab, mon, k)
    /\ \/ ~inst[k].mounted
       \/ depsChanged(inst[k], entryOf(mon, k))

cleanupRuns(tab, mon, k) ==
    /\ inst[k].mounted
    /\ \/ ~isRendered(tab, mon, k)
       \/ depsChanged(inst[k], entryOf(mon, k))

unmounts(tab, mon, k) == inst[k].mounted /\ ~isRendered(tab, mon, k)

\* What React does to the instance under key k when App renders with the
\* given tab and monitored sequence: mount (run the effect), unmount (run
\* the cleanup), re-run the effect when its dependencies changed, or nothing.
instAfter(tab, mon, k) ==
    IF effectRuns(tab, mon, k)
    THEN runEffect(IF inst[k].mounted THEN inst[k]
                   ELSE Mounted(entryOf(mon, k)),
                   entryOf(mon, k))
    ELSE IF unmounts(tab, mon, k) THEN Unmounted ELSE inst[k]

RECURSIVE cleanupAll(_, _)
cleanupAll(ts, ks) ==
    IF ks = {} THEN ts
    ELSE LET k == CHOOSE x \in ks : TRUE
         IN cleanupAll(cleanup(ts, k), ks \ {k})

\* A timer or fetch created by an instance that has since been unmounted:
\* its closure's state setters no longer reach any component.
orphan(x, tab, mon) ==
    IF x.live /\ unmounts(tab, mon, x.key) THEN [x EXCEPT !.live = FALSE] ELSE x

\* App re-renders: every key is reconciled.
Reconcile(tab, mon) ==
    /\ inst' = [k \in Keys |-> instAfter(tab, mon, k)]
    /\ timers' =
         {orphan(t, tab, mon) :
            t \in cleanupAll(timers, {k \in Keys : cleanupRuns(tab, mon, k)})}
         \cup {[key |-> k, live |-> TRUE] :
                 k \in {x \in Keys : effectRuns(tab, mon, x)}}
    /\ fetches' =
         {orphan(f, tab, mon) : f \in fetches}
         \cup {[key |-> k, run |-> instAfter(tab, mon, k).run,
                n |-> instAfter(tab, mon, k).polls, live |-> TRUE,
                url |-> arrivalsUrl(k, instAfter(tab, mon, k).related)] :
                 k \in {x \in Keys : effectRuns(tab, mon, x)}}

\* LocationSettings is rendered inside TabPanel 1 only: when the tab is left
\* it unmounts, and its fields and message start over on the next mount.
formAfter(tab) ==
    IF tabValue = 1 /\ tab = 1
    THEN UNCHANGED formVars
    ELSE /\ latitude' = "41.8781"
         /\ longitude' = "-87.6298"
         /\ radius' = "0.5"
         /\ formError' = null

\* ------------------------------------------------------------------ Init
Init ==
    /\ tabValue = 0
    /\ stops = NoStops
    /\ loading = FALSE
    /\ error = null
    /\ searchRadius = 5000
    /\ stopsReq = {}
    /\ geo = {}
    /\ latitude = "41.8781"
    /\ longitude = "-87.6298"
    /\ radius = "0.5"
    /\ formError = null
    /\ monitoredStops = <<>>
    /\ loadState = "inflight"
    /\ loadResp = <<>>
    /\ crashed = FALSE
    /\ durable \in InitialSnapshots
    /\ posts = {}
    /\ writes = 0
    /\ inst = [k \in Keys |-> Unmounted]
    /\ timers = {}
    /\ fetches = {}
    /\ events = 0
    /\ lastOp = [op |-> "none", id |-> 0]

\* ------------------------------------------------- startup load (App mount)
\* The storage service answers GET /monitored-stops with its snapshot.
LoadServe ==
    /\ loadState = "inflight"
    /\ loadState' = "answered"
    /\ loadResp' = durable
    /\ UNCHANGED <<crashed, tabValue, appVars, formVars, storeVars, aggVars,
                   events>>

\* loadMonitoredStops, response.ok: setMonitoredStops(data); setTabValue(...)
LoadComplete ==
    /\ loadState = "answered"
    /\ loadState' = "done"
    /\ monitoredStops' = loadResp
    /\ tabValue' = IF Len(loadResp) > 0 THEN 0 ELSE 1
    /\ loadResp' = <<>>
    /\ Reconcile(tabValue', monitoredStops')
    /\ formAfter(tabValue')
    /\ UNCHANGED <<crashed, appVars, durable, posts, writes, events, lastOp>>

\* loadMonitoredStops, fetch rejected or response not ok: nothing is set
LoadFail ==
    /\ loadState \in {"inflight", "answered"}
    /\ loadState' = "done"
    /\ loadResp' = <<>>
    /\ UNCHANGED <<crashed, tabValue, appVars, formVars, storeVars, aggVars,
                   events>>

\* The storage service answers the GET with status 200 and the JSON text
\* null in place of an array.
LoadServeMalformed ==
    /\ loadState = "inflight"
    /\ loadState' = "malformed"
    /\ UNCHANGED <<loadResp, crashed, tabValue, appVars, formVars, storeVars,
                   aggVars, events>>

\* loadMonitoredStops, response.ok with data = null: setMonitoredStops(null)
\* is called, data.length throws into the catch, and the next render of App
\* throws on monitoredStops.length.  With no error boundary React unmounts
\* the whole tree: every effect is cleaned up, all state is gone, and the
\* answers of requests still in flight reach nothing.  Writes in flight
\* still reach the storage service.
LoadMalformed ==
    /\ loadState = "malformed"
    /\ loadState' = "done"
    /\ crashed' = TRUE
    /\ tabValue' = 0
    /\ stops' = NoStops
    /\ loading' = FALSE
    /\ error' = null
    /\ stopsReq' = {}
    /\ geo' = {}
    /\ latitude' = "41.8781"
    /\ longitude' = "-87.6298"
    /\ radius' = "0.5"
    /\ formError' = null
    /\ monitoredStops' = <<>>
    /\ inst' = [k \in Keys |-> Unmounted]
    /\ timers' = {}
    /\ fetches' = {}
    /\ UNCHANGED <<loadResp, searchRadius, durable, posts, writes, lastOp,
                   events>>

\* ------------------------------------------------------------------ tabs
\* Tabs onChange / the 'Find Stops' button: setTabValue(newValue)
TabChange(v) ==
    /\ ~crashed
    /\ v # tabValue
    /\ events < MaxEvents
    /\ events' = events + 1
    /\ tabValue' = v
    /\ Reconcile(v, monitoredStops)
    /\ formAfter(v)
    /\ UNCHANGED <<appVars, storeVars, loadVars>>

\* ---------------------------------------------------------- stop search
\* The fields' onChange handlers
setLatitude(text) ==
    /\ ~crashed
    /\ tabValue = 1
    /\ text # latitude
    /\ latitude' = text
    /\ UNCHANGED <<tabValue, appVars, longitude, radius, formError, storeVars,
                   loadVars, aggVars, events>>

setLongitude(text) ==
    /\ ~crashed
    /\ tabValue = 1
    /\ text # longitude
    /\ longitude' = text
    /\ UNCHANGED <<tabValue, appVars, latitude, radius, formError, storeVars,
                   loadVars, aggVars, events>>

setRadius(text) ==
    /\ ~crashed
    /\ tabValue = 1
    /\ text # radius
    /\ radius' = text
    /\ UNCHANGED <<tabValue, appVars, latitude, longitude, formError, storeVars,
                   loadVars, aggVars, events>>

\* fetchNearbyStops up to its await: setLoading(true) and the GET is sent
fetchNearbyStops(lat, lon, rad) ==
    /\ loading' = TRUE
    /\ stopsReq' = stopsReq \cup {[lat |-> lat, lon |-> lon, radius |-> rad]}

\* LocationSettings.handleSubmit ('Search Area', enabled while not loading)
\* and, for accepted input, App.handleLocationUpdate
handleSubmit ==
    /\ ~crashed
    /\ tabValue = 1
    /\ ~loading
    /\ LET lat == parseFloat(latitude)
           lon == parseFloat(longitude)
           rad == parseFloat(radius)
       IN IF validate(lat, lon, rad) # null
          THEN /\ formError' = validate(lat, lon, rad)
               /\ UNCHANGED <<loading, stopsReq, searchRadius>>
          ELSE /\ formError' = null
               /\ searchRadius' = rad.v
               /\ fetchNearbyStops(lat.v, lon.v, rad.v)
    /\ UNCHANGED <<tabValue, stops, error, geo, latitude, longitude, radius,
                   storeVars, loadVars, aggVars, events>>

\* App.getLocation ('Use Current Location', enabled while not loading): the
\* callbacks close over the searchRadius of the render that was clicked.
getLocation ==
    /\ ~crashed
    /\ tabValue = 1
    /\ ~loading
    /\ \/ /\ error' = GeoUnsupported
          /\ UNCHANGED <<loading, geo>>
       \/ /\ loading' = TRUE
          /\ geo' = geo \cup {searchRadius}
          /\ error' = error
    /\ UNCHANGED <<tabValue, stops, searchRadius, stopsReq, formVars,
                   storeVars, loadVars, aggVars, events>>

\* getCurrentPosition succeeds: setLocation; fetchNearbyStops(..., searchRadius)
GeoSucceed(rad) ==
    /\ rad \in geo
    /\ geo' = geo \ {rad}
    /\ fetchNearbyStops(GeoPosition.lat, GeoPosition.lon, rad)
    /\ UNCHANGED <<tabValue, stops, error, searchRadius, formVars, storeVars,
                   loadVars, aggVars, events>>

\* getCurrentPosition fails: setError(...); setLoading(false)
GeoFail(rad) ==
    /\ rad \in geo
    /\ geo' = geo \ {rad}
    /\ error' = GeoError
    /\ loading' = FALSE
    /\ UNCHANGED <<tabValue, stops, searchRadius, stopsReq, formVars,
                   storeVars, loadVars, aggVars, events>>

\* fetchNearbyStops, good response: setStops(data); setError(null)
SearchSucceed(q, data) ==
    /\ stopsReq' = stopsReq \ {q}
    /\ stops' = data
    /\ error' = null
    /\ loading' = FALSE
    /\ UNCHANGED <<tabValue, searchRadius, geo, formVars, storeVars, loadVars,
                   aggVars, events>>

\* SearchFail without setStops(empty)
SearchFail_keepsStops(q) ==
    /\ stopsReq' = stopsReq \ {q}
    /\ error' = SearchError
    /\ stops' = stops
    /\ loading' = FALSE
    /\ UNCHANGED <<tabValue, searchRadius, geo, formVars, storeVars, loadVars,
                   aggVars, events>>

\* fetchNearbyStops, catch: setError(...); setStops(empty)
SearchFail(q) ==
    /\ stopsReq' = stopsReq \ {q}
    /\ error' = SearchError
    /\ stops' = NoStops
    /\ loading' = FALSE
    /\ UNCHANGED <<tabValue, searchRadius, geo, formVars, storeVars, loadVars,
                   aggVars, events>>

\* ------------------------------------------------- MonitoredStopStore (App)
\* handleStopSelect posting the added stop alone
handleStopSelect_postsDelta(stop) ==
    /\ ~crashed
    /\ events < MaxEvents
    /\ events' = events + 1
    /\ monitoredStops' = addStop(monitoredStops, stop)
    /\ IF ~isStopMonitored(monitoredStops, stop)
       THEN /\ posts' = posts \cup {[n |-> writes + 1, body |-> <<stop>>]}
            /\ writes' = writes + 1
       ELSE UNCHANGED <<posts, writes>>
    /\ lastOp' = [op |-> IF ~isStopMonitored(monitoredStops, stop)
                         THEN "added" ELSE "rejected",
                  id |-> stop.stop_id]
    /\ Reconcile(tabValue, monitoredStops')
    /\ UNCHANGED <<tabValue, appVars, formVars, durable, loadVars>>

\* App.handleStopSelect
handleStopSelect(stop) ==
    /\ ~crashed
    /\ events < MaxEvents
    /\ events' = events + 1
    /\ monitoredStops' = addStop(monitoredStops, stop)
    /\ IF ~isStopMonitored(monitoredStops, stop)
       THEN /\ posts' = posts \cup {[n |-> writes + 1,
                                     body |-> Append(monitoredStops, stop)]}
            /\ writes' = writes + 1
       ELSE UNCHANGED <<posts, writes>>
    /\ lastOp' = [op |-> IF ~isStopMonitored(monitoredStops, stop)
                         THEN "added" ELSE "rejected",
                  id |-> stop.stop_id]
    /\ Reconcile(tabValue, monitoredStops')
    /\ UNCHANGED <<tabValue, appVars, formVars, durable, loadVars>>

\* App.handleStopRemove
handleStopRemove(stopId) ==
    /\ ~crashed
    /\ events < MaxEvents
    /\ events' = events + 1
    /\ monitoredStops' = removeStop(monitoredStops, stopId)
    /\ posts' = posts \cup {[n |-> writes + 1,
                             body |-> removeStop(monitoredStops, stopId)]}
    /\ writes' = writes + 1
    /\ lastOp' = [op |-> "removed", id |-> stopId]
    /\ Reconcile(tabValue, monitoredStops')
    /\ UNCHANGED <<tabValue, appVars, formVars, durable, loadVars>>

allStops == stops.train_stops \o stops.bus_stops

\* StopsList: the '+' button of a listed stop, enabled while not monitored
StopsListSelect(i) ==
    /\ tabValue = 1
    /\ ~isListed(monitoredStops, allStops[i])
    /\ handleStopSelect(allStops[i])

\* StopsMap: a marker click or the popup's 'Add to Monitoring' button
StopsMapSelect(i) ==
    /\ tabValue = 1
    /\ handleStopSelect(selectedStop(allStops[i], stops.train_stops,
                                     stops.bus_stops))

\* App: the 'Remove' button rendered over each monitored stop
RemoveClick(i) ==
    /\ tabValue = 0
    /\ handleStopRemove(monitoredStops[i].stop_id)

\* The storage service handles a POST: the body overwrites the snapshot.
PostDeliver(p) ==
    /\ durable' = p.body
    /\ posts' = posts \ {p}
    /\ UNCHANGED <<tabValue, appVars, formVars, monitoredStops, writes, lastOp,
                   loadVars, aggVars, events>>

\* PostFail restoring the stored snapshot
PostFail_rollback(p) ==
    /\ posts' = posts \ {p}
    /\ monitoredStops' = durable
    /\ Reconcile(tabValue, durable)
    /\ UNCHANGED <<tabValue, appVars, formVars, durable, writes, lastOp,
                   loadVars, events>>

\* The POST fails.  A rejected fetch is logged by .catch(console.error); a
\* response that is not ok is never inspected.  Neither sets any state.
PostFail(p) ==
    /\ posts' = posts \ {p}
    /\ UNCHANGED <<tabValue, appVars, formVars, monitoredStops, durable, writes,
                   lastOp, loadVars, aggVars, events>>

\* ------------------------------------------------ ArrivalAggregator polls
\* setInterval(fetchArrivals, 30000) expires: fetchArrivals is called.  Its
\* state setters act on the instance that created the timer, if that instance
\* is still mounted.
Tick(t) ==
    /\ events < MaxEvents
    /\ events' = events + 1
    /\ IF t.live
       THEN /\ inst' = [inst EXCEPT ![t.key] = beginFetch(@)]
            /\ fetches' = fetches \cup
                 {[key |-> t.key, run |-> inst[t.key].run,
                   n |-> inst[t.key].polls + 1, live |-> TRUE,
                   url |-> arrivalsUrl(t.key, inst[t.key].related)]}
       ELSE /\ inst' = inst
            /\ fetches' = fetches \cup
                 {[key |-> t.key, run |-> 0, n |-> 0, live |-> FALSE,
                   url |-> <<>>]}
    /\ UNCHANGED <<tabValue, appVars, formVars, storeVars, loadVars, timers>>

\* The arrivals fetch resolves with a good response.
FetchSucceed(f, data) ==
    /\ fetches' = fetches \ {f}
    /\ inst' = IF f.live
               THEN [inst EXCEPT ![f.key] = applySuccess(@, data)]
               ELSE inst
    /\ UNCHANGED <<tabValue, appVars, formVars, storeVars, loadVars, timers,
                   events>>

\* FetchFail that also clears the interval of its aggregator
FetchFail_cancelsTimer(f) ==
    /\ fetches' = fetches \ {f}
    /\ inst' = IF f.live
               THEN [inst EXCEPT ![f.key] = applyFailure(@)]
               ELSE inst
    /\ timers' = {t \in timers : t.key # f.key}
    /\ UNCHANGED <<tabValue, appVars, formVars, storeVars, loadVars, events>>

\* The arrivals fetch rejects, or the response is not ok.
FetchFail(f) ==
    /\ fetches' = fetches \ {f}
    /\ inst' = IF f.live
               THEN [inst EXCEPT ![f.key] = applyFailure(@)]
               ELSE inst
    /\ UNCHANGED <<tabValue, appVars, formVars, storeVars, loadVars, timers,
                   events>>

\* ------------------------------------------------------------------ Next
Next ==
    \/ LoadServe
    \/ LoadComplete
    \/ LoadFail
    \/ LoadServeMalformed
    \/ LoadMalformed
    \/ \E v \in {0, 1} : TabChange(v)
    \/ handleSubmit
    \/ \E q \in stopsReq : \E data \in SearchResponses : SearchSucceed(q, data)
    \/ \E q \in stopsReq : SearchFail(q)
    \/ \E i \in 1..Len(allStops) : StopsListSelect(i)
    \/ \E i \in 1..Len(allStops) : StopsMapSelect(i)
    \/ \E i \in 1..Len(monitoredStops) : RemoveClick(i)
    \/ \E p \in posts : PostDeliver(p)
    \/ \E p \in posts : PostFail(p)
    \/ \E t \in timers : Tick(t)
    \/ \E f \in fetches : \E data \in ArrivalResponses : FetchSucceed(f, data)
    \/ \E f \in fetches : FetchFail(f)

Spec == Init /\ [][Next]_vars

\* ------------------------------------------------------------------------
\* The store as an interface: handleStopSelect and handleStopRemove are
\* called with any stop a selection can produce and any stop id, in every
\* state of the monitored sequence the load and earlier calls lead to.
RECURSIVE seqRange(_)
seqRange(q) == IF q = <<>> THEN {} ELSE {Head(q)} \cup seqRange(Tail(q))

Candidates ==
    UNION { { s, selectedStop(s, r.train_stops, r.bus_stops) } :
            <<r, s>> \in { <<r, s>> \in SearchResponses \X {StateLakeN, StateLakeS} :
                            s \in seqRange(r.train_stops \o r.bus_stops) } }

NextStore ==
    \/ LoadServe
    \/ LoadComplete
    \/ LoadFail
    \/ \E stop \in Candidates : handleStopSelect(stop)
    \/ \E stopId \in Keys : handleStopRemove(stopId)
    \/ \E p \in posts : PostDeliver(p)
    \/ \E p \in posts : PostFail(p)

SpecStore == Init /\ [][NextStore]_vars

\* ------------------------------------------------------------------------
\* The aggregators alone, with the browser's timer guarantee: an interval
\* that stays armed keeps expiring.
Poll(k) == \E t \in timers : t.key = k /\ t.live /\ Tick(t)

NextPoll ==
    \/ LoadServe
    \/ LoadComplete
    \/ LoadFail
    \/ \E v \in {0, 1} : TabChange(v)
    \/ \E i \in 1..Len(monitoredStops) : RemoveClick(i)
    \/ \E k \in Keys : Poll(k)
    \/ \E f \in fetches : \E data \in ArrivalResponses : FetchSucceed(f, data)
    \/ \E f \in fetches : FetchFail(f)

SpecPoll ==
    Init /\ [][NextPoll]_vars /\ \A k \in Keys : WF_vars(Poll(k))

\* ------------------------------------------------------------------------
\* The search form and the location lookup, with any text in the fields.
NextSearch ==
    \/ \E v \in {0, 1} : TabChange(v)
    \/ \E text \in LatTexts : setLatitude(text)
    \/ \E text \in LonTexts : setLongitude(text)
    \/ \E text \in RadTexts : setRadius(text)
    \/ handleSubmit
    \/ getLocation
    \/ \E rad \in geo : GeoSucceed(rad)
    \/ \E rad \in geo : GeoFail(rad)
    \/ \E q \in stopsReq : \E data \in SearchResponses : SearchSucceed(q, data)
    \/ \E q \in stopsReq : SearchFail(q)

SpecSearch == Init /\ [][NextSearch]_vars

\* ------------------------------------------------------------------------
\* StopsMap alone, over every search result of one train stop and two bus
\* stops with names and routes drawn from small sets.
StopNames == {"State/Lake", "Clark/Lake"}
RouteSets == SUBSET {"22", "36"}

RelateUniverses ==
    { [train_stops |-> <<MkStop(1, n1, r1)>>,
       bus_stops |-> <<MkStop(2, n2, r2), MkStop(3, n3, r3)>>] :
        <<n1, n2, n3>> \in StopNames \X StopNames \X StopNames,
        <<r1, r2, r3>> \in RouteSets \X RouteSets \X RouteSets }

\* The find-stops tab after an empty load, showing one of the given search
\* results.
InitShowing(results) ==
    /\ tabValue = 1
    /\ stops \in results
    /\ loading = FALSE
    /\ error = null
    /\ searchRadius = 5000
    /\ stopsReq = {}
    /\ geo = {}
    /\ latitude = "41.8781"
    /\ longitude = "-87.6298"
    /\ radius = "0.5"
    /\ formError = null
    /\ monitoredStops = <<>>
    /\ loadState = "done"
    /\ loadResp = <<>>
    /\ crashed = FALSE
    /\ durable = <<>>
    /\ posts = {}
    /\ writes = 0
    /\ inst = [k \in Keys |-> Unmounted]
    /\ timers = {}
    /\ fetches = {}
    /\ events = 0
    /\ lastOp = [op |-> "none", id |-> 0]

InitRelate == InitShowing(RelateUniverses)

NextRelate == \E i \in 1..Len(allStops) : StopsMapSelect(i)

SpecRelate == InitRelate /\ [][NextRelate]_vars

\* ------------------------------------------------------------------------
\* One session of the store after an empty load in which every write
\* reaches the storage service, in whatever order the network delivers.
InitWrites == InitShowing(SearchResponses)

NextWrites ==
    \/ \E i \in 1..Len(allStops) : StopsListSelect(i)
    \/ \E i \in 1..Len(allStops) : StopsMapSelect(i)
    \/ \E stopId \in Keys : handleStopRemove(stopId)
    \/ \E p \in posts : PostDeliver(p)

SpecWrites == InitWrites /\ [][NextWrites]_vars

\* ========================================================================
\* Properties
\* ========================================================================
idsOf(mon) == {mon[i].stop_id : i \in 1..Len(mon)}

mountedKeys == {k \in Keys : inst[k].mounted}

liveFetches(k) == {f \in fetches : f.live /\ f.key = k}

\* Two stops are the same logical monitoring point.
SameClass(a, b) ==
    \/ a.stop_name = b.stop_name /\ a.routes \cap b.routes # {}
    \/ b.stop_id \in seqRange(a.related_stop_ids)
    \/ a.stop_id \in seqRange(b.related_stop_ids)

\* C1: the monitored sequence never holds two entities of one equivalence
\* class (same stop_name and a common route, or one lists the other as
\* related), whatever was searched, selected and removed.
C1_OnePerClass ==
    \A i, j \in 1..Len(monitoredStops) :
        i # j => ~SameClass(monitoredStops[i], monitoredStops[j])

\* C2: a failed poll leaves the arrival data of every aggregator as it was,
\* and leaves the aggregator it belongs to with the error set.
C2_FailureKeepsData ==
    [][\A f \in fetches :
         FetchFail(f) =>
           /\ \A k \in Keys : inst'[k].arrivals = inst[k].arrivals
           /\ f.live => /\ inst'[f.key].mounted
                        /\ inst'[f.key].error # null]_vars

\* C2 witness: a mounted aggregator whose two polls have both completed holds
\* the data of the success together with the error of the failure.
C2_Witness ==
    \E k \in mountedKeys :
        /\ inst[k].polls = 2
        /\ liveFetches(k) = {}
        /\ inst[k].error # null
        /\ inst[k].arrivals # <<>>

\* C3: at most one arrivals fetch of an aggregator is in flight.
C3_OneFetchInFlight ==
    \A k \in Keys : Cardinality(liveFetches(k)) <= 1

\* A fetch started by an aggregator that has been stopped since: its
\* instance was unmounted, or its polling effect was cleaned up and re-run.
startedBeforeStop(f) == ~f.live \/ f.run # inst[f.key].run

resolves(f) ==
    \/ FetchFail(f)
    \/ \E data \in ArrivalResponses : FetchSucceed(f, data)

\* C4: the result of a fetch that was in flight when its aggregator was
\* stopped changes no aggregator's data, error or loading flag.
C4_LateResultDiscarded ==
    [][\A f \in fetches :
         startedBeforeStop(f) /\ resolves(f) => inst' = inst]_vars

\* The rejection condition of add, over sets of ids.
mustReject(mon, stop) ==
    \/ stop.stop_id \in idsOf(mon)
    \/ seqRange(stop.related_stop_ids) \cap idsOf(mon) # {}
    \/ \E i \in 1..Len(mon) : stop.stop_id \in seqRange(mon[i].related_stop_ids)

\* C5: add leaves the monitored sequence unchanged when the stop's id is
\* monitored, when its related ids meet a monitored id, or when a monitored
\* entity lists its id as related; otherwise it appends the stop at the end.
C5_AddContract ==
    [][\A stop \in Candidates :
         handleStopSelect(stop) =>
           IF mustReject(monitoredStops, stop)
           THEN monitoredStops' = monitoredStops /\ posts' = posts
           ELSE monitoredStops' = Append(monitoredStops, stop)]_vars

\* C5 witness: an add was rejected for a stop whose own id is not monitored.
C5_Witness ==
    /\ lastOp.op = "rejected"
    /\ lastOp.id \notin idsOf(monitoredStops)

\* C6: after add(stop), a second add(stop) would change nothing and write
\* nothing.
C6_AddIdempotent ==
    [][\A stop \in Candidates :
         handleStopSelect(stop) =>
           /\ addStop(monitoredStops', stop) = monitoredStops'
           /\ isStopMonitored(monitoredStops', stop)]_vars

\* C6 witness: an add of a stop that is monitored already was rejected.
C6_Witness ==
    /\ lastOp.op = "rejected"
    /\ lastOp.id \in idsOf(monitoredStops)

without(mon, p) == SubSeq(mon, 1, p - 1) \o SubSeq(mon, p + 1, Len(mon))

\* C7: remove(id) takes out the one entity whose stop_id is id and nothing
\* else, keeps the order of the others, changes nothing when id is absent,
\* and a second remove(id) changes nothing.
C7_RemoveContract ==
    [][\A stopId \in Keys :
         handleStopRemove(stopId) =>
           /\ IF stopId \in idsOf(monitoredStops)
              THEN \E p \in 1..Len(monitoredStops) :
                     /\ monitoredStops[p].stop_id = stopId
                     /\ monitoredStops' = without(monitoredStops, p)
              ELSE monitoredStops' = monitoredStops
           /\ removeStop(monitoredStops', stopId) = monitoredStops']_vars

\* C7 witness: after remove(id) an entity that lists id as related is still
\* monitored.
C7_Witness ==
    /\ lastOp.op = "removed"
    /\ \E i \in 1..Len(monitoredStops) :
         lastOp.id \in seqRange(monitoredStops[i].related_stop_ids)

isAscending(arrs) ==
    \A i, j \in 1..Len(arrs) : i < j => arrs[i].minutes <= arrs[j].minutes

occurrences(seq, x) == Cardinality({i \in 1..Len(seq) : seq[i] = x})

\* groups is the grouping of arrivals by destination, each group ascending
\* by minutes.
isSortedGrouping(groups, arrivals) ==
    /\ \A g, h \in 1..Len(groups) :
         g # h => groups[g].destination # groups[h].destination
    /\ \A g \in 1..Len(groups) :
         /\ groups[g].arrivals # <<>>
         /\ \A i \in 1..Len(groups[g].arrivals) :
              groups[g].arrivals[i].destination = groups[g].destination
         /\ isAscending(groups[g].arrivals)
    /\ \A a \in seqRange(arrivals) :
         \E g \in 1..Len(groups) :
            /\ groups[g].destination = a.destination
            /\ occurrences(groups[g].arrivals, a) = occurrences(arrivals, a)

\* C8: the aggregated view of the held arrivals groups them by destination,
\* every arrival in exactly one group, each group ascending by minutes.
C8_GroupsSorted ==
    \A k \in mountedKeys :
        isSortedGrouping(arrivalsByDestination(inst[k].arrivals),
                         inst[k].arrivals)

\* C9: what an aggregator shows is the grouping of the arrivals it holds,
\* also while it exposes an error.
C9_ViewShowsHeldData ==
    \A k \in mountedKeys :
        render(inst[k]).groups = arrivalsByDestination(inst[k].arrivals)

\* f is in flight after the step and was not in flight before it.
isStartedNow(f) ==
    /\ f \in fetches'
    /\ f \notin fetches
    /\ [f EXCEPT !.live = TRUE] \notin fetches

\* C10: a fetch is only ever started for a mounted aggregator, and no timer
\* outlives the aggregator that armed it.
C10_StoppedIsTerminal ==
    [][/\ \A f \in fetches' : isStartedNow(f) => f.live /\ inst'[f.key].mounted
       /\ \A t \in timers' : t.live /\ inst'[t.key].mounted]_vars

\* C10 witness: an aggregator was stopped with a fetch in flight and nothing
\* is mounted under its key.
C10_Witness ==
    \E f \in fetches : ~f.live /\ ~inst[f.key].mounted

\* C11: a failed poll leaves every timer armed, and an aggregator that shows
\* the error of a failed poll starts another poll (which clears the error)
\* or is stopped, as long as the timer can still expire within the bound.
C11_FailureKeepsPolling ==
    /\ [][\A f \in fetches : FetchFail(f) => timers' = timers]_vars
    /\ \A k \in Keys :
          (inst[k].mounted /\ inst[k].error # null)
            ~> (inst[k].error = null \/ events = MaxEvents)

\* C11 witness: the first poll of a mounted aggregator has failed (it holds
\* no data and the poll is no longer in flight) and its second poll is in
\* flight.
C11_Witness ==
    \E k \in mountedKeys :
        /\ inst[k].polls = 2
        /\ inst[k].arrivals = <<>>
        /\ inst[k].error = null
        /\ \A f \in liveFetches(k) : f.n = 2
        /\ liveFetches(k) # {}

\* relate(candidate, universe) as a set of ids: none for a stop without
\* routes, else the other stops of the same name that share a route.
relateIds(candidate, universe) ==
    IF candidate.routes = {} THEN {}
    ELSE {u.stop_id : u \in {x \in universe :
                                /\ x.stop_id # candidate.stop_id
                                /\ x.stop_name = candidate.stop_name
                                /\ x.routes \cap candidate.routes # {}}}

\* C12: every stop a selection appends, from the list or from the map,
\* carries as related ids the relate set of the selected stop over the
\* train and bus stops of the current search result.
C12_SelectionCarriesRelated ==
    [][\A i \in 1..Len(allStops) :
         (StopsListSelect(i) \/ StopsMapSelect(i)) /\ lastOp'.op = "added"
           => seqRange(monitoredStops'[Len(monitoredStops')].related_stop_ids)
                = relateIds(allStops[i], seqRange(allStops))]_vars

C17_SearchOutcome ==
    [][/\ (\E q \in stopsReq : SearchFail(q)) =>
            /\ stops' = NoStops
            /\ error' # null
            /\ Len(allStops') = 0
            /\ ~loading'
       /\ \A q \in stopsReq : \A data \in SearchResponses :
            SearchSucceed(q, data) =>
              stops' = data /\ error' = null /\ ~loading']_vars

\* C17 witness: a search failed after an earlier one had succeeded and a stop
\* of its result had been added: the error is shown and the list is empty.
C17_Witness ==
    /\ error = SearchError
    /\ stops = NoStops
    /\ lastOp.op = "added"
    /\ loadState = "inflight"
    /\ durable = <<>>

\* C19: no two entities of the monitored sequence have the same stop_id,
\* after the load and after every add and remove.
C19_UniqueStopIds ==
    \A i, j \in 1..Len(monitoredStops) :
        monitoredStops[i].stop_id = monitoredStops[j].stop_id => i = j

\* C19 witness: two stops are monitored and the add of one of their ids was
\* the last operation.
C19_Witness ==
    /\ Len(monitoredStops) = 2
    /\ lastOp.op = "rejected"
    /\ lastOp.id \in idsOf(monitoredStops)

\* The step issues exactly one write, and its body is the monitored sequence
\* the step leaves.
oneSnapshotWrite ==
    /\ writes' = writes + 1
    /\ \E p \in posts' :
         /\ p \notin posts
         /\ posts' = posts \cup {p}
         /\ p.body = monitoredStops'

\* C20: an add that appends and every remove issue exactly one write of the
\* complete resulting sequence, a rejected add issues none, writes are issued
\* by add and remove only, and storage changes only to the body of a write.
C20_FullSnapshotWrites ==
    [][/\ \A stop \in Candidates :
            handleStopSelect(stop) =>
              IF monitoredStops' # monitoredStops
              THEN oneSnapshotWrite
              ELSE posts' = posts /\ writes' = writes
       /\ \A stopId \in Keys : handleStopRemove(stopId) => oneSnapshotWrite
       /\ ~(posts' \subseteq posts) =>
            \/ \E stop \in Candidates : handleStopSelect(stop)
            \/ \E stopId \in Keys : handleStopRemove(stopId)
       /\ durable' # durable =>
            \E p \in posts : durable' = p.body /\ posts' = posts \ {p}]_vars

\* C20 witness: the write of an add to a non-empty sequence is in flight and
\* carries both entities.
C20_Witness ==
    /\ lastOp.op = "added"
    /\ Len(monitoredStops) = 2
    /\ \E p \in posts : p.n = writes /\ p.body = monitoredStops

\* The texts that are the input the claim accepts: three numbers, latitude
\* in [-90, 90], longitude in [-180, 180], radius in (0, 2].
acceptable ==
    /\ latitude = "41.8781"
    /\ longitude = "-87.6298"
    /\ radius \in {"0.5", "2"}

radiusInRange(rad) == 0 < rad /\ rad <= units(2)

\* C14: a submit with a field that is no number or out of range sets the
\* form's message and sends and changes nothing else; every /stops request in
\* flight, and the stored radius a location lookup will use, has its radius
\* in (0, 2].
C14_InvalidInputRejected ==
    /\ [][handleSubmit /\ ~acceptable =>
            /\ formError' # null
            /\ stopsReq' = stopsReq
            /\ UNCHANGED <<loading, searchRadius, stops, error>>]_vars
    /\ [](/\ \A q \in stopsReq : radiusInRange(q.radius)
          /\ \A rad \in geo : radiusInRange(rad)
          /\ radiusInRange(searchRadius))

\* C14 witness: radius 3 was submitted and rejected with the radius message,
\* no request is in flight, and the stored radius is the one of an earlier
\* accepted search.
C14_Witness ==
    /\ radius = "3"
    /\ formError = RadiusMessage
    /\ stopsReq = {}
    /\ ~loading
    /\ searchRadius = units(2)

\* The related ids StopsMap attaches to the stop at position i of the
\* current search result.
relatedOf(i) ==
    seqRange(selectedStop(allStops[i], stops.train_stops,
                          stops.bus_stops).related_stop_ids)

\* C15: for every stop of the search result, the related ids attached to it
\* are none when it has no routes, and otherwise the ids of exactly the other
\* stops of the result with its name and a route in common; its own id is
\* never among them.
C15_RelateContract ==
    \A i \in 1..Len(allStops) :
        /\ allStops[i].routes = {} => relatedOf(i) = {}
        /\ allStops[i].routes # {} =>
             \A j \in 1..Len(allStops) :
                allStops[j].stop_id \in relatedOf(i)
                  <=> /\ j # i
                      /\ allStops[j].stop_name = allStops[i].stop_name
                      /\ allStops[j].routes \cap allStops[i].routes # {}
        /\ relatedOf(i) \subseteq idsOf(allStops)
        /\ allStops[i].stop_id \notin relatedOf(i)

\* C15 witness: a selected stop without routes was added with no related ids
\* although the result holds another stop of its name, and a selected stop
\* with routes was added with a related id.
C15_Witness ==
    \E a, b \in 1..Len(monitoredStops) :
        /\ monitoredStops[a].has_related
        /\ monitoredStops[a].routes = {}
        /\ monitoredStops[a].related_stop_ids = <<>>
        /\ \E j \in 1..Len(allStops) :
              /\ allStops[j].stop_name = monitoredStops[a].stop_name
              /\ allStops[j].stop_id # monitoredStops[a].stop_id
        /\ monitoredStops[b].related_stop_ids # <<>>

\* C16: over one search result, two different stops with the same name and
\* a common route each have the other's id attached, and whenever one has
\* the other's id attached the other has its id attached.
C16_RelateSymmetric ==
    \A i, j \in 1..Len(allStops) :
        /\ (/\ i # j
            /\ allStops[i].stop_name = allStops[j].stop_name
            /\ allStops[i].routes \cap allStops[j].routes # {})
             => /\ allStops[j].stop_id \in relatedOf(i)
                /\ allStops[i].stop_id \in relatedOf(j)
        /\ allStops[j].stop_id \in relatedOf(i)
             => allStops[i].stop_id \in relatedOf(j)

\* C16 witness: a stop was added with a related id, and the selection of that
\* related stop, which has the first stop's id attached, was rejected.
C16_Witness ==
    /\ lastOp.op = "rejected"
    /\ \E a \in 1..Len(monitoredStops) : \E j \in 1..Len(allStops) :
          /\ allStops[j].stop_id = lastOp.id
          /\ lastOp.id \in seqRange(monitoredStops[a].related_stop_ids)
          /\ monitoredStops[a].stop_id \in relatedOf(j)
          /\ allStops[j].routes # monitoredStops[a].routes

\* C18: when the startup load fails, by a rejected request, a response that
\* is not ok or a payload that is not a list of stops, the application keeps
\* running with the monitored sequence it has, which is empty unless a stop
\* was added meanwhile, and shows no error.
C18_LoadFailsSoft ==
    [][LoadFail \/ LoadMalformed =>
         /\ ~crashed'
         /\ error' = error
         /\ monitoredStops' = monitoredStops
         /\ writes = 0 => monitoredStops' = <<>>]_vars

\* A URL's path is what precedes its first '?', its query what follows it.
RECURSIVE pathOf(_)
pathOf(url) ==
    IF url = <<>> \/ Head(url) = "?" THEN <<>>
    ELSE <<Head(url)>> \o pathOf(Tail(url))

queryOf(url) ==
    IF Len(pathOf(url)) = Len(url) THEN <<>>
    ELSE SubSeq(url, Len(pathOf(url)) + 2, Len(url))

\* C21: every arrivals request of a mounted aggregator has the path
\* /arrivals/{stop_id} of its entity, and as query the parameter
\* related_stop_ids with the JSON array of the entity's related ids when
\* there are any, and no query when there are none.
C21_RequestWellFormed ==
    \A f \in fetches :
        f.live /\ f.run = inst[f.key].run =>
          /\ pathOf(f.url) = <<"/api/arrivals/", ToString(f.key)>>
          /\ queryOf(f.url) =
               IF inst[f.key].related = <<>> THEN <<>>
               ELSE <<"related_stop_ids", "=", stringify(inst[f.key].related)>>

\* The step leaves the aggregator under key k as it is: its state, its
\* timer and its fetches in flight.
untouched(k) ==
    /\ inst'[k] = inst[k]
    /\ {t \in timers' : t.key = k} = {t \in timers : t.key = k}
    /\ {f \in fetches' : f.key = k} = {f \in fetches : f.key = k}

othersUntouched(key) == \A k \in Keys \ {key} : untouched(k)

\* C22: a timer expiry, a fetch result, the removal and the addition of one
\* entity leave the aggregator of every other entity untouched.
C22_AggregatorsIndependent ==
    [][/\ \A t \in timers : Tick(t) => othersUntouched(t.key)
       /\ \A f \in fetches : resolves(f) => othersUntouched(f.key)
       /\ \A i \in 1..Len(monitoredStops) :
            RemoveClick(i) => othersUntouched(monitoredStops[i].stop_id)
       /\ \A i \in 1..Len(allStops) :
            StopsListSelect(i) \/ StopsMapSelect(i)
              => othersUntouched(allStops[i].stop_id)]_vars

\* C22 witness: an entity was removed while the aggregator of another one,
\* which is still mounted, had its first poll in flight.
C22_Witness ==
    /\ lastOp.op = "removed"
    /\ \E k \in mountedKeys \ {lastOp.id} :
          /\ inst[k].polls = 1
          /\ liveFetches(k) # {}
          /\ [key |-> k, live |-> TRUE] \in timers
    /\ \E f \in fetches : f.key = lastOp.id /\ ~f.live

\* The first fetch of the aggregator under key k is still in flight.
firstFetchInFlight(k) ==
    \E f \in liveFetches(k) : f.n = 1 /\ f.run = 1

\* C23: the step that creates an aggregator starts its first fetch, and as
\* long as that fetch is in flight the aggregator is polling: it shows
\* neither data as ready nor an error.
C23_PollsImmediately ==
    /\ [][\A k \in Keys :
            ~inst[k].mounted /\ inst'[k].mounted =>
              /\ inst'[k].loading
              /\ \E f \in fetches' \ fetches :
                    f.key = k /\ f.live /\ f.n = 1 /\ f.run = 1]_vars
    /\ [](\A k \in mountedKeys :
            firstFetchInFlight(k) =>
              inst[k].loading /\ inst[k].error = null)

\* C24: when the startup load completes, a stop added before is still
\* monitored and a stop removed before is still absent; and when the one
\* write issued so far was that of an add and has been handled, the entities
\* of the snapshot the load was answered with are still in storage.
C24_LoadKeepsMutations ==
    [][LoadComplete =>
         /\ lastOp.op = "added" => lastOp.id \in idsOf(monitoredStops')
         /\ lastOp.op = "removed" => lastOp.id \notin idsOf(monitoredStops')
         /\ (lastOp.op = "added" /\ writes = 1 /\ posts = {})
              => idsOf(loadResp) \subseteq idsOf(durable')]_vars

\* C25: once every write issued in the session has been delivered, storage
\* holds the monitored sequence.
C25_StorageConverges ==
    posts = {} /\ writes > 0 => durable = monitoredStops

\* C26: when the result of a poll is applied to an aggregator, no poll of
\* that aggregator that was started later has completed already: every
\* later poll is still in flight.
C26_NoRegression ==
    [][\A f \in fetches :
         f.live /\ resolves(f) =>
           \A m \in (f.n + 1)..inst[f.key].polls :
              \E g \in liveFetches(f.key) : g.n = m]_vars

====
